---- MODULE Spec2Model ----
(***************************************************************************)
(* A model of the spritesheet assembler, assembler/src/main.rs.            *)
(*                                                                         *)
(* main runs a straight pipeline: collect_images walks <root>/temp and     *)
(* decodes every entry, dims validates the tile sizes, optimal_stacking    *)
(* chooses the grid, a loop pastes tile i with imageops::replace, and      *)
(* save writes the canvas.  Each statement of main is one action.          *)
(*                                                                         *)
(* Pixels are symbolic: the pixel (x, y) of the file at path p decodes to  *)
(* <<p, x, y>>, so a canvas pixel tells which tile and which source pixel  *)
(* it was copied from.  A fresh canvas pixel is Transparent.               *)
(*                                                                         *)
(* usize/u32 arithmetic is modelled on unbounded integers: within the      *)
(* bounds below no product comes near 2^32, and count as f32 is exact for  *)
(* every count < 2^24.                                                     *)
(***************************************************************************)
EXTENDS Integers, Sequences, FiniteSets, TLC

VARIABLES
    temp,      \* <root>/temp: the directory entries, in the order read_dir returns them
    pc,        \* the statement of main about to run
    images,    \* main.rs:38  let images
    tdims,     \* main.rs:39  let dims
    tiles,     \* main.rs:40  let tiles
    out,       \* main.rs:44  let mut out
    i,         \* main.rs:45  the enumerate() index of the paste loop
    outfile,   \* the file at <root>/<output>
    saves,     \* the number of calls of out.save
    status     \* the process's exit: "running", "ok", or the error main returned

vars == <<temp, pc, images, tdims, tiles, out, i, outfile, saves, status>>

(***************************************************************************)
(* Bounds.                                                                 *)
(***************************************************************************)
MaxFiles == 3       \* directory entries under <root>/temp, in all
MaxDim == 2         \* largest tile width and height, in pixels
MaxCount == 6       \* largest tile count given to optimal_stacking alone
MaxStackDim == 10   \* largest tile side given to optimal_stacking alone

\* File names: byte strings, compared bytewise as OsStr compares them.
Names == {<<1>>, <<1, 1>>, <<1, 2>>, <<2>>}

\* The zeroed pixel of a fresh canvas: a pixel of no file.
Transparent == <<<<>>, 0, 0>>
NoDims == [x |-> 0, y |-> 0]

\* Before the canvas is allocated, and the file at <root>/<output>: absent, a
\* truncated write, or the encoded raster.
NoImage == [w |-> 0, h |-> 0, px |-> <<>>]
NoFile == [kind |-> "absent", img |-> NoImage]
PartialFile == [kind |-> "partial", img |-> NoImage]
PngFile(img) == [kind |-> "png", img |-> img]

(***************************************************************************)
(* The file system under <root>/temp.                                      *)
(*   kind "rgba"         decodes to an 8-bit RGBA raster of size w x h     *)
(*   kind "nonrgba"      decodes, to another colour type                   *)
(*   kind "undecodable"  opens, but is no image (text named x.png)         *)
(*   kind "unreadable"   cannot be opened                                  *)
(*   kind "walkerr"      the walk itself fails on the entry                *)
(*   kind "dir"          a subdirectory, holding children                  *)
(***************************************************************************)
Leaf(n, k, w, h) == [name |-> n, kind |-> k, w |-> w, h |-> h, children |-> <<>>]

Tiles(sizes) == {Leaf(n, "rgba", w, h) : n \in Names, w \in sizes, h \in sizes}

Others(kinds) == {Leaf(n, k, 0, 0) : n \in Names, k \in kinds}

Dir(n, ch) == [name |-> n, kind |-> "dir", w |-> 0, h |-> 0, children |-> ch]

NamesOf(l) == {l[k].name : k \in 1..Len(l)}

\* l with every entry of S of a name not yet in l put behind it.
Extend(ls, S) ==
    {Append(p[1], p[2]) : p \in {q \in ls \X S : q[2].name \notin NamesOf(q[1])}}

\* <<L0, .., Ln>>, Lk the listings of exactly k entries of S, no two of the same
\* name: a directory as read_dir returns it, in whatever order the file system chooses.
RECURSIVE ListingTable(_, _, _)
ListingTable(S, tab, n) ==
    IF Len(tab) > n THEN tab
    ELSE ListingTable(S, Append(tab, Extend(tab[Len(tab)], S)), n)

\* The listings of exactly n entries.
ListingsOfLen(S, n) == ListingTable(S, <<{<<>>}>>, n)[n + 1]

(***************************************************************************)
(* collect_images and image_filter, with the walk of walkdir::WalkDir.     *)
(***************************************************************************)
Min(S) == CHOOSE m \in S : \A n \in S : m <= n

\* OsStr's Ord: bytewise lexicographic; -1 Less, 0 Equal, 1 Greater.
NameCmp(a, b) ==
    LET m == IF Len(a) < Len(b) THEN Len(a) ELSE Len(b)
        diff == {k \in 1..m : a[k] # b[k]}
    IN  IF diff # {}
        THEN IF a[Min(diff)] < b[Min(diff)] THEN -1 ELSE 1
        ELSE IF Len(a) < Len(b) THEN -1
             ELSE IF Len(a) = Len(b) THEN 0 ELSE 1

\* The comparator WalkDir sorts a directory with: the closure given to sort_by on
\* two readable entries; an entry the walk failed on sorts before every readable one.
EntryCmp(a, b) ==
    IF a.kind # "walkerr" /\ b.kind # "walkerr" THEN NameCmp(a.name, b.name)
    ELSE IF a.kind = "walkerr" /\ b.kind = "walkerr" THEN 0
    ELSE IF a.kind = "walkerr" THEN -1 ELSE 1

\* e put into the sorted list l behind every entry that is not greater (stable).
RECURSIVE Insert(_, _)
Insert(l, e) ==
    IF l = <<>> THEN <<e>>
    ELSE IF EntryCmp(e, l[1]) < 0 THEN <<e>> \o l
    ELSE <<l[1]>> \o Insert(Tail(l), e)

\* The walk without .sort_by: each directory as the file system returned it.
SortBy_unsorted(l) == l

RECURSIVE SortBy(_)
SortBy(l) ==
    IF l = <<>> THEN <<>>
    ELSE Insert(SortBy(SubSeq(l, 1, Len(l) - 1)), l[Len(l)])

\* What the iterator yields for one entry: Ok(DirEntry) or Err.
Item(e, parent) ==
    [ok |-> e.kind # "walkerr", path |-> Append(parent, e.name),
     kind |-> e.kind, w |-> e.w, h |-> e.h]

\* The entries of a sorted listing, each directory followed by its own contents.
RECURSIVE WalkEntries(_, _)
WalkEntries(l, parent) ==
    IF l = <<>> THEN <<>>
    ELSE <<Item(l[1], parent)>>
         \o (IF l[1].kind = "dir"
             THEN WalkEntries(SortBy(l[1].children), Append(parent, l[1].name))
             ELSE <<>>)
         \o WalkEntries(Tail(l), parent)

\* WalkDir::new(temporary).sort_by(..).into_iter(): the root itself, then its contents.
WalkDir(listing) ==
    <<[ok |-> TRUE, path |-> <<>>, kind |-> "dir", w |-> 0, h |-> 0]>>
    \o WalkEntries(SortBy(listing), <<>>)

\* The raster a file decodes to.
Decode(path, w, h) ==
    [w |-> w, h |-> h,
     px |-> [p \in (0..(w - 1)) \X (0..(h - 1)) |-> <<path, p[1], p[2]>>]]

\* image_filter converting every decodable image to RGBA instead of rejecting it.
image_filter_converting(entry) ==
    IF ~entry.ok THEN [ok |-> FALSE, err |-> "walkdir::Error"]
    ELSE IF entry.kind \in {"dir", "unreadable", "undecodable"}
         THEN [ok |-> FALSE, err |-> "ImageError"]
    ELSE [ok |-> TRUE, img |-> Decode(entry.path, entry.w, entry.h)]

image_filter(entry) ==
    IF ~entry.ok THEN [ok |-> FALSE, err |-> "walkdir::Error"]
    ELSE IF entry.kind \in {"dir", "unreadable", "undecodable"}
         THEN [ok |-> FALSE, err |-> "ImageError"]
    ELSE IF entry.kind = "rgba"
         THEN [ok |-> TRUE, img |-> Decode(entry.path, entry.w, entry.h)]
    ELSE [ok |-> FALSE, err |-> "ImageFormatError"]

RECURSIVE FilterMap(_)
FilterMap(items) ==
    IF items = <<>> THEN <<>>
    ELSE LET r == image_filter(items[1])
         IN  (IF r.ok THEN <<r.img>> ELSE <<>>) \o FilterMap(Tail(items))

collect_images(listing) == FilterMap(WalkDir(listing))

(***************************************************************************)
(* dims, optimal_stacking, y_from_x.                                       *)
(***************************************************************************)
dimensions(img) == <<img.w, img.h>>

\* dims comparing the widths alone.
dims_widths(imgs) ==
    IF imgs = <<>> THEN [ok |-> FALSE, err |-> "NoImagesError"]
    ELSE LET d == dimensions(imgs[1])
         IN  IF \A k \in 1..Len(imgs) : dimensions(imgs[k])[1] = d[1]
             THEN [ok |-> TRUE, val |-> [x |-> d[1], y |-> d[2]]]
             ELSE [ok |-> FALSE, err |-> "InconsistentSizeError"]

dims(imgs) ==
    IF imgs = <<>> THEN [ok |-> FALSE, err |-> "NoImagesError"]
    ELSE LET d == dimensions(imgs[1])
         IN  IF \A k \in 1..Len(imgs) : dimensions(imgs[k]) = d
             THEN [ok |-> TRUE, val |-> [x |-> d[1], y |-> d[2]]]
             ELSE [ok |-> FALSE, err |-> "InconsistentSizeError"]

\* (count as f32 / x as f32).ceil() as usize: the quotient is exact enough for the
\* ceiling to be the integer ceiling whenever count < 2^24.
y_from_x(x, count) == (count + x - 1) \div x

Max(a, b) == IF a >= b THEN a ELSE b

\* std::usize::MAX, the fold's initial score, as the largest integer TLC holds:
\* above every score within the bounds.
UsizeMax == 2147483647

\* The closure folded over 1..=count.
FoldStep(min, x, count, d) ==
    LET y == y_from_x(x, count)
        dim == Max(y * d.y, x * d.x)
    IN  IF dim < min.dim THEN [x |-> x, dim |-> dim] ELSE min

RECURSIVE Fold(_, _, _, _)
Fold(min, x, count, d) ==
    IF x > count THEN min
    ELSE Fold(FoldStep(min, x, count, d), x + 1, count, d)

\* optimal_stacking returning the fold's column count, still with one row.
optimal_stacking_one_row(count, d) ==
    LET min == Fold([dim |-> UsizeMax, x |-> 0], 1, count, d)
    IN  [x |-> min.x, y |-> 1]

\* The fold's result is bound to x and never read: the grid returned is one row of
\* count columns.
optimal_stacking(count, d) ==
    LET min == Fold([dim |-> UsizeMax, x |-> 0], 1, count, d)
    IN  [x |-> count, y |-> 1]

(***************************************************************************)
(* The canvas: ImageBuffer::new and imageops::replace.                     *)
(***************************************************************************)
\* The canvas allocated with width and height exchanged.
ImageBuffer_new_swapped(width, height) ==
    [w |-> height, h |-> width,
     px |-> [p \in (0..(height - 1)) \X (0..(width - 1)) |-> Transparent]]

ImageBuffer_new(width, height) ==
    [w |-> width, h |-> height,
     px |-> [p \in (0..(width - 1)) \X (0..(height - 1)) |-> Transparent]]

\* replace onto a canvas cleared first: what was pasted before is lost.
replace_onto_fresh(bottom, top, x, y) ==
    [bottom EXCEPT !.px =
        [p \in DOMAIN bottom.px |->
            IF /\ x <= p[1] /\ p[1] < x + top.w
               /\ y <= p[2] /\ p[2] < y + top.h
            THEN top.px[<<p[1] - x, p[2] - y>>]
            ELSE Transparent]]

\* replace copies top over bottom at (x, y), cropped to what lies inside bottom.
replace(bottom, top, x, y) ==
    [bottom EXCEPT !.px =
        [p \in DOMAIN bottom.px |->
            IF /\ x <= p[1] /\ p[1] < x + top.w
               /\ y <= p[2] /\ p[2] < y + top.h
            THEN top.px[<<p[1] - x, p[2] - y>>]
            ELSE bottom.px[p]]]

\* main.rs:46-47: where tile k goes.
PasteX(k, grid, d) == (k % grid.x) * d.x
\* The row offset taken with the row count where the column count belongs.
PasteY_by_rows(k, grid, d) == (k \div grid.y) * d.y

PasteY(k, grid, d) == (k \div grid.x) * d.y

(***************************************************************************)
(* main, statement by statement.                                           *)
(***************************************************************************)
Collect ==
    /\ pc = "collect"
    /\ images' = collect_images(temp)
    /\ pc' = "dims"
    /\ UNCHANGED <<temp, tdims, tiles, out, i, outfile, saves, status>>

Validate ==
    /\ pc = "dims"
    /\ LET r == dims(images)
       IN  IF r.ok
           THEN /\ tdims' = r.val
                /\ pc' = "stack"
                /\ UNCHANGED status
           ELSE /\ status' = r.err
                /\ pc' = "exit"
                /\ UNCHANGED tdims
    /\ UNCHANGED <<temp, images, tiles, out, i, outfile, saves>>

Stack ==
    /\ pc = "stack"
    /\ tiles' = optimal_stacking(Len(images), tdims)
    /\ pc' = "canvas"
    /\ UNCHANGED <<temp, images, tdims, out, i, outfile, saves, status>>

NewCanvas ==
    /\ pc = "canvas"
    /\ out' = ImageBuffer_new(tiles.x * tdims.x, tiles.y * tdims.y)
    /\ i' = 0
    /\ pc' = "paste"
    /\ UNCHANGED <<temp, images, tdims, tiles, outfile, saves, status>>

\* The loop left after its first tile.
Paste_first_only ==
    /\ pc = "paste"
    /\ i < Len(images)
    /\ out' = replace(out, images[i + 1], PasteX(i, tiles, tdims), PasteY(i, tiles, tdims))
    /\ i' = i + 1
    /\ pc' = "save"
    /\ UNCHANGED <<temp, images, tdims, tiles, outfile, saves, status>>

Paste ==
    /\ pc = "paste"
    /\ i < Len(images)
    /\ out' = replace(out, images[i + 1], PasteX(i, tiles, tdims), PasteY(i, tiles, tdims))
    /\ i' = i + 1
    /\ pc' = IF i + 1 < Len(images) THEN "paste" ELSE "save"
    /\ UNCHANGED <<temp, images, tdims, tiles, outfile, saves, status>>

SaveOk ==
    /\ pc = "save"
    /\ outfile' = PngFile(out)
    /\ saves' = saves + 1
    /\ status' = "ok"
    /\ pc' = "exit"
    /\ UNCHANGED <<temp, images, tdims, tiles, out, i>>

\* The write fails: nothing, or a truncated file, is left behind.
SaveErr ==
    /\ pc = "save"
    /\ outfile' \in {outfile, PartialFile}
    /\ saves' = saves + 1
    /\ status' = "SaveError"
    /\ pc' = "exit"
    /\ UNCHANGED <<temp, images, tdims, tiles, out, i>>

Start(listing) ==
    /\ temp = listing
    /\ pc = "collect"
    /\ images = <<>>
    /\ tdims = NoDims
    /\ tiles = NoDims
    /\ out = NoImage
    /\ i = 0
    /\ outfile = NoFile
    /\ saves = 0
    /\ status = "running"

\* A flat <root>/temp: tiles of any sizes beside files that are no tiles.
FlatEntries == Tiles(1..MaxDim) \cup Others({"nonrgba", "undecodable"})

FlatListings == ListingTable(FlatEntries, <<{<<>>}>>, MaxFiles)

Init ==
    \E n \in 0..MaxFiles :
        \E listing \in FlatListings[n + 1] :
            Start(listing)

Next ==
    \/ Collect
    \/ Validate
    \/ Stack
    \/ NewCanvas
    \/ Paste
    \/ SaveOk
    \/ SaveErr

Spec == Init /\ [][Next]_vars

\* A directory tree, subdirectories one level deep: files of every kind, all tiles
\* of one size.
TreeLeaves == Tiles({1}) \cup Others({"nonrgba", "undecodable", "unreadable", "walkerr"})

TreeTops == ListingTable(TreeLeaves \cup {Dir(nm, <<>>) : nm \in Names}, <<{<<>>}>>, MaxFiles)

TreeChildren == ListingTable(TreeLeaves, <<{<<>>}>>, MaxFiles)

\* The runs over the listing top of <root>/temp with its subdirectories, from
\* position k on, given at most budget children in all.
RECURSIVE StartFilled(_, _, _)
StartFilled(top, k, budget) ==
    IF k > Len(top) THEN Start(top)
    ELSE IF top[k].kind # "dir" THEN StartFilled(top, k + 1, budget)
    ELSE \E m \in 0..budget :
             \E ch \in TreeChildren[m + 1] :
                 StartFilled([top EXCEPT ![k].children = ch], k + 1, budget - m)

\* The loader alone, over the trees of at most MaxFiles entries in all.
InitLoad ==
    \E n \in 0..MaxFiles :
        \E top \in TreeTops[n + 1] :
            StartFilled(top, 1, MaxFiles - n)

NextLoad == Collect

SpecLoad == InitLoad /\ [][NextLoad]_vars

\* optimal_stacking alone, on count validated tiles of size d.
BlankTiles(count, d) == [k \in 1..count |-> Decode(<<<<k>>>>, d.x, d.y)]

InitStack ==
    \E count \in 1..MaxCount, w \in 1..MaxStackDim, h \in 1..MaxStackDim :
        /\ temp = <<>>
        /\ pc = "stack"
        /\ images = BlankTiles(count, [x |-> w, y |-> h])
        /\ tdims = [x |-> w, y |-> h]
        /\ tiles = NoDims
        /\ out = NoImage
        /\ i = 0
        /\ outfile = NoFile
        /\ saves = 0
        /\ status = "running"

NextStack == Stack

SpecStack == InitStack /\ [][NextStack]_vars

(***************************************************************************)
(* What the claims speak of, stated apart from the operators above.        *)
(***************************************************************************)
N == Len(images)

\* The least r with c * r >= n.
CeilDiv(n, c) == CHOOSE r \in 0..n : c * r >= n /\ \A q \in 0..(r - 1) : c * q < n

\* The score of a grid of c columns for n tiles of size d.
Score(n, c, d) == Max(CeilDiv(n, c) * d.y, c * d.x)

Stacked == pc = "canvas" /\ N >= 1

SizeOf(img) == <<img.w, img.h>>

Uniform(imgs) == \A k \in 1..Len(imgs) : SizeOf(imgs[k]) = SizeOf(imgs[1])

\* The file a decoded tile came from: its path under temp, and its file name.
PathOf(img) == img.px[<<0, 0>>][1]

NameOf(img) == PathOf(img)[Len(PathOf(img))]

\* Paths compared one component at a time, a directory before what it holds.
PathCmp(a, b) ==
    LET m == IF Len(a) < Len(b) THEN Len(a) ELSE Len(b)
        diff == {k \in 1..m : a[k] # b[k]}
    IN  IF diff # {} THEN NameCmp(a[Min(diff)], b[Min(diff)])
        ELSE IF Len(a) < Len(b) THEN -1
             ELSE IF Len(a) = Len(b) THEN 0 ELSE 1

\* The paths of the files of temp that decode to RGBA.
RgbaPaths ==
    {<<temp[k].name>> : k \in {j \in 1..Len(temp) : temp[j].kind = "rgba"}} \cup
    UNION {{<<temp[k].name, temp[k].children[c].name>> :
               c \in {j \in 1..Len(temp[k].children) : temp[k].children[j].kind = "rgba"}} :
           k \in 1..Len(temp)}

Collected == pc = "dims"

\* The pixels imageops::replace is to write for tile k: cell k of the grid.
Cell(k) ==
    {p \in (0..(out.w - 1)) \X (0..(out.h - 1)) :
        /\ p[1] \div tdims.x = k % tiles.x
        /\ p[2] \div tdims.y = k \div tiles.x}

(***************************************************************************)
(* C1: for every tile count N >= 1 and tile size (W, H), the grid that     *)
(* optimal_stacking returns has the least score max(rows*H, columns*W)     *)
(* among the candidate column counts 1..N (so N = 4 of 10x10 gives 2x2).   *)
(***************************************************************************)
C1_MinimalScore ==
    Stacked =>
        /\ \A c \in 1..N :
               Max(tiles.y * tdims.y, tiles.x * tdims.x) <= Score(N, c, tdims)
        /\ (N = 4 /\ tdims = [x |-> 10, y |-> 10]) => tiles = [x |-> 2, y |-> 2]

(***************************************************************************)
(* C2: when several column counts reach the least score, optimal_stacking  *)
(* returns the smallest of them (so N = 5 of 10x10 gives columns 2,        *)
(* rows 3).                                                                *)
(***************************************************************************)
C2_FirstMinimalColumns ==
    Stacked =>
        /\ \A c \in 1..N : Score(N, tiles.x, tdims) <= Score(N, c, tdims)
        /\ \A c \in 1..(tiles.x - 1) : Score(N, c, tdims) > Score(N, tiles.x, tdims)
        /\ (N = 5 /\ tdims = [x |-> 10, y |-> 10]) => tiles = [x |-> 2, y |-> 3]

(***************************************************************************)
(* C3: the grid optimal_stacking returns has 1 <= columns <= N,            *)
(* columns * rows >= N and rows = ceil(N / columns): no row is wholly      *)
(* empty.                                                                  *)
(***************************************************************************)
C3_GridCovers ==
    Stacked =>
        /\ 1 <= tiles.x /\ tiles.x <= N
        /\ tiles.x * tiles.y >= N
        /\ tiles.y = CeilDiv(N, tiles.x)
        /\ tiles.x * (tiles.y - 1) < N

C3_Witness == Stacked /\ N = 5 /\ tdims = [x |-> 10, y |-> 3] /\ tiles.x = 5

(***************************************************************************)
(* C4: dims returns NoImagesError exactly when the sequence is empty,      *)
(* InconsistentSizeError exactly when it is not empty and some tile's      *)
(* size differs from the first tile's, and otherwise the first tile's      *)
(* (W, H); it leaves the sequence as it was.                               *)
(***************************************************************************)
C4_DimsContract ==
    [][pc = "dims" =>
          /\ (status' = "NoImagesError") <=> (images = <<>>)
          /\ (status' = "InconsistentSizeError") <=> (images # <<>> /\ ~Uniform(images))
          /\ (images # <<>> /\ Uniform(images)) =>
                 /\ status' = "running"
                 /\ pc' = "stack"
                 /\ tdims' = [x |-> images[1].w, y |-> images[1].h]
          /\ images' = images]_vars

C4_Witness ==
    /\ pc = "exit"
    /\ status = "InconsistentSizeError"
    /\ N = 3
    /\ SizeOf(images[1]) = SizeOf(images[2])
    /\ images[1].w = images[3].w
    /\ images[1].h # images[3].h

(***************************************************************************)
(* C5: tile i is pasted at ((i mod columns) * W, (i div columns) * H); its *)
(* row i div columns is below rows, so the whole tile lies inside the      *)
(* canvas of size (columns * W, rows * H); the N tiles fill the first N    *)
(* cells in row-major order, one tile to a cell.                           *)
(***************************************************************************)
C5_CellPlacement ==
    out # NoImage =>
        /\ out.w = tiles.x * tdims.x
        /\ out.h = tiles.y * tdims.y
        /\ DOMAIN out.px = (0..(tiles.x * tdims.x - 1)) \X (0..(tiles.y * tdims.y - 1))
        /\ pc \in {"save", "exit"} => i = N
        /\ \A k \in 0..(i - 1) :
               /\ k \div tiles.x < tiles.y
               /\ \A x \in 0..(tdims.x - 1), y \in 0..(tdims.y - 1) :
                      LET p == <<(k % tiles.x) * tdims.x + x, (k \div tiles.x) * tdims.y + y>>
                      IN  /\ p \in DOMAIN out.px
                          /\ out.px[p] = images[k + 1].px[<<x, y>>]

C5_Witness ==
    /\ pc = "save"
    /\ N = 3
    /\ i = 3
    /\ tdims = [x |-> 2, y |-> 2]
    /\ out.px[<<5, 1>>] = images[3].px[<<1, 1>>]

(***************************************************************************)
(* C6: out.save is called at most once, and only after dims succeeded and  *)
(* all N tiles were pasted; a run in which dims fails ends failed and      *)
(* writes no file; a run in which nothing fails ends with status zero and  *)
(* the whole canvas written; no run stops before its exit.                 *)
(***************************************************************************)
C6_WriteOnceAfterAll ==
    /\ saves <= 1
    /\ saves = 1 =>
           /\ pc = "exit"
           /\ images # <<>> /\ Uniform(images)
           /\ i = N
           /\ status \in {"ok", "SaveError"}
    /\ status \in {"NoImagesError", "InconsistentSizeError"} =>
           pc = "exit" /\ saves = 0 /\ outfile = NoFile
    /\ (pc # "collect" /\ (images = <<>> \/ ~Uniform(images))) =>
           /\ saves = 0 /\ outfile = NoFile
           /\ pc = "exit" => status \in {"NoImagesError", "InconsistentSizeError"}
    /\ status = "ok" => pc = "exit" /\ saves = 1 /\ outfile = PngFile(out) /\ i = N
    /\ outfile # NoFile => saves = 1
    /\ pc = "exit" <=> status # "running"
    /\ pc = "paste" => i < N

C6_Witness ==
    /\ pc = "exit"
    /\ status = "ok"
    /\ N = 2
    /\ outfile = PngFile(out)
    /\ outfile.img.px[<<1, 0>>] = images[2].px[<<0, 0>>]

(***************************************************************************)
(* C7, as claimed: whatever the order in which the file system returns     *)
(* the entries under <root>/temp, collect_images yields the tiles in       *)
(* ascending filename order.                                               *)
(***************************************************************************)
C7_FilenameOrder ==
    Collected =>
        \A a \in 1..N, b \in 1..N :
            a < b => NameCmp(NameOf(images[a]), NameOf(images[b])) <= 0

(***************************************************************************)
(* C7, amended: collect_images yields every RGBA file once, in ascending   *)
(* order of the paths under <root>/temp compared one file name at a time.  *)
(* The sequence is thus fixed by the files alone, not by the order the     *)
(* file system returns them in; tiles of one directory come in ascending   *)
(* filename order, and so do all of them when none lies in a               *)
(* subdirectory.                                                           *)
(***************************************************************************)
C7_PathOrder ==
    Collected =>
        /\ {PathOf(images[k]) : k \in 1..N} = RgbaPaths
        /\ \A a \in 1..N, b \in 1..N :
               a < b =>
                   /\ PathCmp(PathOf(images[a]), PathOf(images[b])) < 0
                   /\ SubSeq(PathOf(images[a]), 1, Len(PathOf(images[a])) - 1)
                          = SubSeq(PathOf(images[b]), 1, Len(PathOf(images[b])) - 1)
                      => NameCmp(NameOf(images[a]), NameOf(images[b])) < 0
        /\ (\A k \in 1..N : Len(PathOf(images[k])) = 1) =>
               \A k \in 1..N :
                   Cardinality({j \in 1..N :
                       NameCmp(NameOf(images[j]), NameOf(images[k])) < 0}) = k - 1

C7_Witness ==
    /\ Collected
    /\ N = 2
    /\ temp = <<Leaf(<<2>>, "rgba", 1, 1),
                Dir(<<1>>, <<Leaf(<<1, 2>>, "rgba", 1, 1)>>)>>
    /\ PathOf(images[1]) = <<<<1>>, <<1, 2>>>>
    /\ PathOf(images[2]) = <<<<2>>>>

(***************************************************************************)
(* C8: an entry that fails to open, fails to decode or decodes to          *)
(* something other than RGBA is dropped without an error: the sequence     *)
(* returned is the RGBA entries of the walk, in the order of the walk,     *)
(* and the run goes on to validation with them.                            *)
(***************************************************************************)
C8_DropsNonTiles ==
    Collected =>
        LET items == WalkDir(temp)
            kept == {k \in 1..Len(items) : items[k].ok /\ items[k].kind = "rgba"}
        IN  /\ status = "running"
            /\ N = Cardinality(kept)
            /\ \A k \in kept :
                   LET at == Cardinality({j \in kept : j <= k})
                   IN  /\ images[at].w = items[k].w
                       /\ images[at].h = items[k].h
                       /\ images[at].px =
                              [p \in (0..(items[k].w - 1)) \X (0..(items[k].h - 1)) |->
                                  <<items[k].path, p[1], p[2]>>]

C8_Witness ==
    /\ Collected
    /\ status = "running"
    /\ Len(temp) = 3
    /\ temp[1].kind = "undecodable"
    /\ temp[2].kind = "rgba"
    /\ temp[3].kind \in {"nonrgba", "unreadable"}
    /\ N = 1
    /\ NameOf(images[1]) = temp[2].name

(***************************************************************************)
(* C9: with exactly one tile of size (W, H) the grid is (1, 1), the canvas *)
(* has size (W, H), and after compositing every canvas pixel is the        *)
(* tile's pixel at the same coordinates.                                   *)
(***************************************************************************)
C9_SingleTileRoundTrip ==
    N = 1 =>
        /\ pc \in {"canvas", "paste", "save"} => tiles = [x |-> 1, y |-> 1]
        /\ out # NoImage =>
               /\ tiles = [x |-> 1, y |-> 1]
               /\ out.w = images[1].w
               /\ out.h = images[1].h
               /\ DOMAIN out.px = DOMAIN images[1].px
        /\ (out # NoImage /\ pc \in {"save", "exit"}) => out.px = images[1].px

C9_Witness ==
    /\ N = 1
    /\ pc = "save"
    /\ out.w = 1
    /\ out.h = 2
    /\ out.px[<<0, 1>>] = <<PathOf(images[1]), 0, 1>>

(***************************************************************************)
(* C10: paste step i changes only the pixels of cell i and leaves every    *)
(* other canvas pixel as it was; the regions of two different tiles never  *)
(* overlap; and once all N tiles are pasted every cell N..columns*rows-1   *)
(* is still transparent.                                                   *)
(***************************************************************************)
C10_PasteFrame ==
    [][pc = "paste" =>
          /\ DOMAIN out'.px = DOMAIN out.px
          /\ \A p \in DOMAIN out.px : p \notin Cell(i) => out'.px[p] = out.px[p]
          /\ \A p \in Cell(i) : out.px[p] = Transparent /\ out'.px[p] # Transparent
          /\ \A j \in 0..(N - 1), k \in 0..(N - 1) : j # k => Cell(j) \cap Cell(k) = {}
          /\ pc' = "save" =>
                 \A k \in N..(tiles.x * tiles.y - 1) :
                     \A p \in Cell(k) : out'.px[p] = Transparent]_vars

C10_Witness ==
    /\ pc = "paste"
    /\ i = 2
    /\ N = 3
    /\ out.px[<<0, 0>>] # Transparent
    /\ out.px[<<2, 0>>] = Transparent

====
